---------------------------- MODULE Spec2Model ----------------------------
(***************************************************************************)
(* Model of the extent-string parser and the geotransform derivation of    *)
(* nansat.domain.Domain (src/nansat/domain.py).                            *)
(*                                                                         *)
(* Strings are sequences of one-character strings.  Floats are modelled as *)
(* exact rationals [n, d] in lowest terms with d > 0; all inputs are small *)
(* integers or halves, for which trunc of a float quotient equals trunc of *)
(* the exact quotient.                                                     *)
(***************************************************************************)
EXTENDS Integers, Sequences, FiniteSets, TLC

(***************************************************************************)
(* Bounds of the model.                                                    *)
(***************************************************************************)
MaxStrVal == 1    \* numbers written in generated extent strings: -1..MaxStrVal
MaxArity  == 5    \* values per group in generated malformed strings: 0..MaxArity
MaxGroups == 3    \* hyphen groups in generated malformed strings: 0..MaxGroups
MaxCoord  == 3    \* xmax, ymax of directly built mappings: -1..MaxCoord
MaxNum    == 3    \* tr/ts numerators of directly built mappings: -MaxNum..MaxNum

(***************************************************************************)
(* Rational arithmetic standing for Python float arithmetic.               *)
(***************************************************************************)
Abs(i) == IF i < 0 THEN -i ELSE i

RECURSIVE GCD(_, _)
GCD(a, b) == IF b = 0 THEN a ELSE GCD(b, a % b)

Rat(n, d) ==
    LET s == IF d < 0 THEN -1 ELSE 1
        g == GCD(Abs(n), Abs(d))
    IN  [n |-> (s * n) \div g, d |-> (s * d) \div g]

Float(i) == [n |-> i, d |-> 1]
Zero == Float(0)

RSub(a, b) == Rat(a.n * b.d - b.n * a.d, a.d * b.d)
RAdd(a, b) == Rat(a.n * b.d + b.n * a.d, a.d * b.d)
RMul(a, b) == Rat(a.n * b.n, a.d * b.d)
RNeg(a) == [n |-> -a.n, d |-> a.d]
RAbs(a) == [n |-> Abs(a.n), d |-> a.d]
RDiv(a, b) == Rat(a.n * b.d, a.d * b.n)        \* caller guards b # 0
RLt(a, b) == a.n * b.d < b.n * a.d
RLe(a, b) == a.n * b.d <= b.n * a.d
IsZero(a) == a.n = 0

\* min() and max() of a list of floats
RMin(xs) == CHOOSE m \in {xs[i] : i \in 1..Len(xs)} : \A i \in 1..Len(xs) : RLe(m, xs[i])
RMax(xs) == CHOOSE m \in {xs[i] : i \in 1..Len(xs)} : \A i \in 1..Len(xs) : RLe(xs[i], m)

\* rounding to the nearest integer, half away from zero, in place of truncation
TruncRounding(a) ==
    IF a.n >= 0 THEN (2 * a.n + a.d) \div (2 * a.d)
    ELSE -((2 * (-a.n) + a.d) \div (2 * a.d))

\* int(x) of a float: truncation toward zero
Trunc(a) == IF a.n >= 0 THEN a.n \div a.d ELSE -((-a.n) \div a.d)

(***************************************************************************)
(* Characters and the string operations the parser uses.                   *)
(***************************************************************************)
Digits == <<"0", "1", "2", "3", "4", "5", "6", "7", "8", "9">>
IsDigit(c) == \E i \in 1..10 : Digits[i] = c
DigitVal(c) == (CHOOSE i \in 1..10 : Digits[i] = c) - 1
IsSpace(c) == c \in {" ", "\t", "\n"}

\* str.strip()
RECURSIVE LStrip(_)
LStrip(s) == IF s # <<>> /\ IsSpace(Head(s)) THEN LStrip(Tail(s)) ELSE s
RECURSIVE RStrip(_)
RStrip(s) ==
    IF s # <<>> /\ IsSpace(s[Len(s)]) THEN RStrip(SubSeq(s, 1, Len(s) - 1)) ELSE s
Strip(s) == RStrip(LStrip(s))

\* str.split('-'): every hyphen separates, empty segments are kept
RECURSIVE SplitHyphen(_)
SplitHyphen(s) ==
    IF \A i \in 1..Len(s) : s[i] # "-" THEN <<s>>
    ELSE LET k == CHOOSE i \in 1..Len(s) :
                      s[i] = "-" /\ \A j \in 1..(i - 1) : s[j] # "-"
         IN  <<SubSeq(s, 1, k - 1)>> \o SplitHyphen(SubSeq(s, k + 1, Len(s)))

\* str.split(): runs of whitespace separate, no empty tokens
RECURSIVE SplitWs(_)
SplitWs(s) ==
    LET t == LStrip(s)
    IN  IF t = <<>> THEN <<>>
        ELSE LET k == IF \A i \in 1..Len(t) : ~IsSpace(t[i]) THEN Len(t) + 1
                      ELSE CHOOSE i \in 1..Len(t) :
                               IsSpace(t[i]) /\ \A j \in 1..(i - 1) : ~IsSpace(t[j])
             IN  <<SubSeq(t, 1, k - 1)>> \o SplitWs(SubSeq(t, k, Len(t)))

\* float(el) on the tokens the parser can see (a token holds no hyphen and no
\* whitespace): a run of digits converts, anything else is a ValueError
IsNumeric(tok) == tok # <<>> /\ \A i \in 1..Len(tok) : IsDigit(tok[i])
RECURSIVE DigitsVal(_)
DigitsVal(tok) ==
    IF tok = <<>> THEN 0
    ELSE 10 * DigitsVal(SubSeq(tok, 1, Len(tok) - 1)) + DigitVal(tok[Len(tok)])
ToFloat(tok) == Float(DigitsVal(tok))


(***************************************************************************)
(* Option names, dictionaries and outcomes.                                *)
(***************************************************************************)
te  == <<"t", "e">>
lle == <<"l", "l", "e">>
ts  == <<"t", "s">>
tr  == <<"t", "r">>

\* an empty Python dict; a dict is a function from keys to lists of floats
EmptyDict == <<>>
HasKey(dict, key) == key \in DOMAIN dict

\* the message of a raised exception: which check, and the values formatted in
NoMsg == [text |-> "", opt |-> <<>>, size |-> 0, given |-> 0]
Raise(kind, msg) == [kind |-> kind, msg |-> msg, dict |-> EmptyDict]
Return(dict) == [kind |-> "ok", msg |-> NoMsg, dict |-> dict]

\* the index of the first token float() rejects, 0 when all convert
FirstBad(toks) ==
    IF \A i \in 1..Len(toks) : IsNumeric(toks[i]) THEN 0
    ELSE CHOOSE i \in 1..Len(toks) :
             ~IsNumeric(toks[i]) /\ \A j \in 1..(i - 1) : IsNumeric(toks[j])

(***************************************************************************)
(* Domain._check_extent_input(option_vars, params, size)                   *)
(***************************************************************************)
_check_extent_input(option_vars, params, size) ==
    IF option_vars = <<>>
    THEN Raise("IndexError", NoMsg)                       \* option_vars[0]
    ELSE IF Head(option_vars) \in params
    THEN IF FirstBad(Tail(option_vars)) # 0
         THEN Raise("OptionError", [NoMsg EXCEPT !.text = "must be int or float"])
         ELSE IF Len(Tail(option_vars)) # size
         THEN Raise("OptionError",
                    [text |-> "requires exactly", opt |-> Head(option_vars),
                     size |-> size, given |-> Len(Tail(option_vars))])
         ELSE Return(EmptyDict)
    ELSE Raise("OptionError",
               [NoMsg EXCEPT !.text = "expected parameter", !.opt = Head(option_vars)])

(***************************************************************************)
(* Domain._create_extent_dict(extent_str)                                  *)
(***************************************************************************)
OptionValues(option) == [i \in 1..(Len(option) - 1) |-> ToFloat(option[i + 1])]

_create_extent_dict(extent_str) ==
    LET segments == Tail(SplitHyphen(Strip(extent_str)))
    IN  IF Len(segments) # 2
        THEN Raise("OptionError",
                   [NoMsg EXCEPT !.text = "requires exactly 2 parameters",
                                 !.given = Len(segments)])
        ELSE LET options == [i \in 1..2 |-> SplitWs(segments[i])]
                 check0 == _check_extent_input(options[1], {te, lle}, 4)
                 check1 == _check_extent_input(options[2], {ts, tr}, 2)
             IN  IF check0.kind # "ok" THEN check0
                 ELSE IF check1.kind # "ok" THEN check1
                 ELSE Return([key \in {options[1][1], options[2][1]} |->
                                 IF key = options[1][1] THEN OptionValues(options[1])
                                 ELSE OptionValues(options[2])])


(***************************************************************************)
(* Domain._transform_tr, Domain._transform_ts and the size and transform   *)
(* part of Domain._get_geotransform.                                       *)
(***************************************************************************)
NoSizes == [kind |-> "", msg |-> NoMsg, resolution_x |-> Zero, resolution_y |-> Zero,
            raster_x_size |-> Zero, raster_y_size |-> Zero]
RaiseSizes(kind, text) ==
    [NoSizes EXCEPT !.kind = kind, !.msg = [NoMsg EXCEPT !.text = text]]

\* the guard with the height compared to the size of the resolution
TrTooLargeAbs(width, height, resolution_x, resolution_y) ==
    RLt(width, resolution_x) \/ RLt(height, RAbs(resolution_y))

\* the guard of line 745
TrTooLarge(width, height, resolution_x, resolution_y) ==
    RLt(width, resolution_x) \/ RLt(height, resolution_y)

_transform_tr(width, height, tr_arr) ==
    LET resolution_x == tr_arr[1]
        resolution_y == RNeg(tr_arr[2])
    IN  IF TrTooLarge(width, height, resolution_x, resolution_y)
        THEN RaiseSizes("OptionError", "-tr is too large")
        ELSE IF IsZero(resolution_x) \/ IsZero(resolution_y)
        THEN RaiseSizes("ZeroDivisionError", "float division by zero")
        ELSE [kind |-> "ok", msg |-> NoMsg,
              resolution_x |-> resolution_x, resolution_y |-> resolution_y,
              raster_x_size |-> RDiv(width, resolution_x),
              raster_y_size |-> RAbs(RDiv(height, resolution_y))]

\* line 743 as an assignment into the list: tr_arr[1] = -tr_arr[1]
tr_arr_negated_in_place(tr_arr) == <<tr_arr[1], RNeg(tr_arr[2])>>

\* the list tr_arr after _transform_tr: lines 741-751 assign to locals only
tr_arr_after_transform_tr(tr_arr) == tr_arr

\* line 757 without its abs(): the sign of ts[1] would reach resolution_y
_transform_ts_without_abs(width, height, ts_arr) ==
    LET raster_x_size == ts_arr[1]
        raster_y_size == ts_arr[2]
    IN  IF IsZero(raster_x_size) \/ IsZero(raster_y_size)
        THEN RaiseSizes("ZeroDivisionError", "float division by zero")
        ELSE [kind |-> "ok", msg |-> NoMsg,
              resolution_x |-> RDiv(width, raster_x_size),
              resolution_y |-> RNeg(RDiv(height, raster_y_size)),
              raster_x_size |-> raster_x_size, raster_y_size |-> raster_y_size]

_transform_ts(width, height, ts_arr) ==
    LET raster_x_size == ts_arr[1]
        raster_y_size == ts_arr[2]
    IN  IF IsZero(raster_x_size) \/ IsZero(raster_y_size)
        THEN RaiseSizes("ZeroDivisionError", "float division by zero")
        ELSE [kind |-> "ok", msg |-> NoMsg,
              resolution_x |-> RDiv(width, raster_x_size),
              resolution_y |-> RNeg(RAbs(RDiv(height, raster_y_size))),
              raster_x_size |-> raster_x_size, raster_y_size |-> raster_y_size]

\* line 706 with < for <=, as the docstring of _get_geotransform words it
ExtentIllegalStrict(width, height) == RLt(width, Zero) \/ RLt(height, Zero)

\* the guard of line 706
ExtentIllegal(width, height) == RLe(width, Zero) \/ RLe(height, Zero)

\* the result of _get_geotransform: the GeoTransform list and the two sizes
NoResult == [kind |-> "", msg |-> NoMsg, coordinates |-> <<>>,
             raster_x_size |-> 0, raster_y_size |-> 0]
RaiseResult(kind, msg) == [NoResult EXCEPT !.kind = kind, !.msg = msg]

Coordinates(extent_dict, sizes) ==
    <<extent_dict[te][1], sizes.resolution_x, Zero,
      extent_dict[te][4], Zero, sizes.resolution_y>>

(***************************************************************************)
(* Domain._convert_extentDic(dstSRS, extentDic).  The coordinate           *)
(* transformation belongs to the geospatial library; it is a function of   *)
(* the point, one of a few shapes a projection can have.                   *)
(***************************************************************************)
Transforms == {"geographic", "rotated", "diagonal", "mirrored", "curved"}
TransformPoint(dstSRS, x, y) ==
    CASE dstSRS = "geographic" -> <<x, y>>
      [] dstSRS = "rotated"    -> <<RNeg(y), x>>
      [] dstSRS = "diagonal"   -> <<RAdd(x, y), RSub(y, x)>>
      [] dstSRS = "mirrored"   -> <<RNeg(x), RNeg(y)>>
      [] dstSRS = "curved"     -> <<RMul(x, y), RAdd(x, RMul(y, y))>>

\* two opposite corners only, as if the box stayed axis-aligned
CornersDiagonalOnly(lle_arr) ==
    <<<<lle_arr[1], lle_arr[2]>>, <<lle_arr[3], lle_arr[4]>>,
      <<lle_arr[1], lle_arr[2]>>, <<lle_arr[3], lle_arr[4]>>>>

\* the four TransformPoint calls of lines 445-448, in order
Corners(lle_arr) ==
    <<<<lle_arr[1], lle_arr[4]>>, <<lle_arr[3], lle_arr[4]>>,
      <<lle_arr[3], lle_arr[2]>>, <<lle_arr[1], lle_arr[2]>>>>

\* the te entry replacing the lle entry instead of joining it
SetItemDroppingLle(dict, key, value) ==
    [k \in (DOMAIN dict \ {lle}) \cup {key} |-> IF k = key THEN value ELSE dict[k]]

\* extentDic[key] = value: the same dict with the key added or replaced
SetItem(dict, key, value) ==
    [k \in DOMAIN dict \cup {key} |-> IF k = key THEN value ELSE dict[k]]

_convert_extentDic(dstSRS, extentDic) ==
    LET points == Corners(extentDic[lle])
        xy == [i \in 1..4 |-> TransformPoint(dstSRS, points[i][1], points[i][2])]
        xs == [i \in 1..4 |-> xy[i][1]]
        ys == [i \in 1..4 |-> xy[i][2]]
    IN  [points |-> points,
         dict |-> SetItem(extentDic, te, <<RMin(xs), RMin(ys), RMax(xs), RMax(ys)>>)]

(***************************************************************************)
(* Domain.__init__: the choice among the ways to construct a Domain.  An   *)
(* argument is given (not None) or not.                                    *)
(***************************************************************************)
\* the branches without the check of lines 160-161
ConstructionPathUnchecked(a) ==
    IF a.ds /\ ~a.srs THEN "ds"
    ELSE IF a.ds /\ a.srs THEN "ds_srs"
    ELSE IF a.srs /\ a.ext THEN "srs_ext"
    ELSE IF a.lat /\ a.lon THEN "lonlat"
    ELSE "none"

ConstructionPath(a) ==
    IF a.ds /\ a.srs /\ a.ext THEN "ambiguous"
    ELSE IF a.ds /\ ~a.srs THEN "ds"
    ELSE IF a.ds /\ a.srs THEN "ds_srs"
    ELSE IF a.srs /\ a.ext THEN "srs_ext"
    ELSE IF a.lat /\ a.lon THEN "lonlat"
    ELSE "none"

(***************************************************************************)
(* Inputs.  An extent string is rendered from a list of groups, each an    *)
(* option name and value tokens; a mapping is built directly for the calls *)
(* of _get_geotransform that do not go through the parser.                 *)
(***************************************************************************)
RECURSIVE NatToStr(_)
NatToStr(i) ==
    IF i < 10 THEN <<Digits[i + 1]>> ELSE NatToStr(i \div 10) \o <<Digits[(i % 10) + 1]>>
IntToStr(i) == IF i < 0 THEN <<"-">> \o NatToStr(-i) ELSE NatToStr(i)

RECURSIVE JoinSp(_)
JoinSp(toks) ==
    IF toks = <<>> THEN <<>> ELSE <<" ">> \o Head(toks) \o JoinSp(Tail(toks))
RenderGroup(g) == <<"-">> \o g.name \o JoinSp(g.toks)
RECURSIVE RenderGroups(_)
RenderGroups(gs) ==
    IF gs = <<>> THEN <<>>
    ELSE RenderGroup(Head(gs)) \o (IF Len(gs) > 1 THEN <<" ">> ELSE <<>>)
             \o RenderGroups(Tail(gs))
Render(in) == in.lead \o RenderGroups(in.groups) \o in.trail

Pads == {<<>>, <<" ">>, <<"\t", "\n">>}
foo == <<"f", "o", "o">>
Group(name, nums) ==
    [name |-> name, nums |-> nums, toks |-> [i \in 1..Len(nums) |-> IntToStr(nums[i])]]

\* well-shaped strings: an extent group and a size group, in either order
StrVals == (-1)..MaxStrVal
ExtentGroups ==
    {Group(name, <<x0, y0, x1, y1>>) :
        name \in {te, lle}, x0 \in {-1, 0}, y0 \in {-1, 0}, x1 \in StrVals, y1 \in StrVals}
SizeGroups == {Group(name, <<a, b>>) : name \in {ts, tr}, a \in StrVals, b \in StrVals}
\* the two examples of the docstring of Domain.__init__ (lines 115-116)
ExampleGroups ==
    {<<Group(lle, <<-10, 30, 55, 60>>), Group(ts, <<1000, 1000>>)>>,
     <<Group(te, <<100, 2000, 300, 10000>>), Group(tr, <<300, 200>>)>>}
ValidInputs ==
    {[family |-> "valid", groups |-> gs, lead |-> lead, trail |-> trail] :
        gs \in {<<e, z>> : e \in ExtentGroups, z \in SizeGroups}
               \cup {<<z, e>> : e \in ExtentGroups, z \in SizeGroups},
        lead \in Pads, trail \in Pads}
    \cup {[family |-> "valid", groups |-> gs, lead |-> <<>>, trail |-> <<>>] :
              gs \in ExampleGroups}

\* malformed strings: any group count, unknown or missing names, any arity,
\* at most one token float() rejects
MalToks(n, bad) == [i \in 1..n |-> IF i = bad THEN <<"x">> ELSE NatToStr(i)]
MalGroups ==
    {[name |-> name, nums |-> <<>>, toks |-> MalToks(n, bad)] :
        name \in {te, lle, ts, tr, foo}, n \in 0..MaxArity, bad \in 0..MaxArity}
    \cup {[name |-> <<>>, nums |-> <<>>, toks |-> <<>>]}
SimpleGroups == {Group(te, <<0, 0, 1, 1>>), Group(ts, <<1, 1>>)}
MalformedInputs ==
    {[family |-> "malformed", groups |-> gs, lead |-> <<>>, trail |-> <<>>] :
        gs \in UNION {[1..k -> SimpleGroups] : k \in (0..MaxGroups) \ {2}}
               \cup {<<g, h>> : g \in MalGroups, h \in MalGroups}}

\* mappings given to _get_geotransform directly
SizeVals == {Rat(n, d) : n \in (-MaxNum)..MaxNum, d \in {1, 2}}
TeLists ==
    {<<Float(x0), Float(y0), Float(x1), Float(y1)>> :
        x0 \in {-1, 0}, y0 \in {0, 1}, x1 \in (-1)..MaxCoord, y1 \in (-1)..MaxCoord}
DictOf(k1, v1, k2, v2) == [key \in {k1, k2} |-> IF key = k1 THEN v1 ELSE v2]
ExampleDicts ==
    {DictOf(te, <<Float(0), Float(0), Float(100), Float(50)>>,
            tr, <<Float(10), Float(10)>>),
     DictOf(te, <<Float(0), Float(0), Float(100), Float(100)>>,
            ts, <<Float(100), Float(100)>>),
     DictOf(te, <<Float(0), Float(0), Float(100), Float(5)>>,
            tr, <<Float(10), Float(10)>>)}
DirectDicts ==
    {DictOf(te, t, key, <<a, b>>) :
        t \in TeLists, key \in {tr, ts}, a \in SizeVals, b \in SizeVals}
    \cup {DictOf(te, t, te, t) : t \in TeLists}
    \cup ExampleDicts

(***************************************************************************)
(* Inputs of the other calls: Domain(...) itself, _convert_extentDic,      *)
(* write_kml and get_border.                                               *)
(***************************************************************************)
MaxRaster  == 6    \* raster sizes given to get_border: 1..MaxRaster
MaxPoints  == 4    \* nPoints given to get_border: 1..MaxPoints
MaxDomains == 2    \* domains listed in the XML file given to write_kml

AllArgs == [ds : BOOLEAN, srs : BOOLEAN, ext : BOOLEAN, lon : BOOLEAN, lat : BOOLEAN]
SrsExtArgs == [ds |-> FALSE, srs |-> TRUE, ext |-> TRUE, lon |-> FALSE, lat |-> FALSE]
NoArgs == [ds |-> FALSE, srs |-> FALSE, ext |-> FALSE, lon |-> FALSE, lat |-> FALSE]

InitInput(gs) == [family |-> "init", groups |-> gs, lead |-> <<>>, trail |-> <<>>]
FewGroups ==
    {<<Group(te, <<0, 0, 1, 1>>), Group(ts, <<1, 1>>)>>,
     <<Group(lle, <<0, 0, 1, 1>>), Group(tr, <<1, 1>>)>>,
     <<Group(te, <<0, 0, 1, 1>>)>>}
\* Domain(srs, ext, ds, lon, lat): which arguments are given, the projection
\* srs stands for, whether AutoCreateWarpedVRT can warp, and the ext string
InitCalls ==
    {[args |-> a, lib |-> l, srs |-> "geographic", input |-> InitInput(gs)] :
        a \in AllArgs, l \in {"ok", "fails"}, gs \in FewGroups}
    \cup
    {[args |-> SrsExtArgs, lib |-> "ok", srs |-> t, input |-> InitInput(gs)] :
        t \in Transforms,
        gs \in {<<e, z>> : e \in ExtentGroups, z \in SizeGroups} \cup ExampleGroups}

\* mappings given to _convert_extentDic directly
LleDicts ==
    {DictOf(lle, <<Float(a), Float(b), Float(c), Float(d)>>, ts, <<Float(1), Float(1)>>) :
        a \in StrVals, b \in StrVals, c \in StrVals, d \in StrVals}

\* write_kml(xmlFileName, kmlFileName): None, an empty name or a name
XmlArgs == {"None", "", "domains.xml"}
KmlArgs == {"None", "", "domain.kml"}
IsTrue(name) == name \notin {"None", ""}

(***************************************************************************)
(* get_border: Domain._get_row_col_vector and                              *)
(* Domain._compound_row_col_vectors (Python 2: / on ints is floor          *)
(* division, range() is a list).                                           *)
(***************************************************************************)
Max(a, b) == IF a >= b THEN a ELSE b
Range(start, stop, step) ==
    [i \in 1..((stop - start + step - 1) \div step) |-> start + (i - 1) * step]
Slice(xs, n) == SubSeq(xs, 1, IF Len(xs) < n THEN Len(xs) ELSE n)
Reversed(xs) == [i \in 1..Len(xs) |-> xs[Len(xs) + 1 - i]]
Repeat(x, n) == [i \in 1..n |-> x]

\* line 548 without its [0:n_points]
_get_row_col_vector_unsliced(raster_size, n_points) ==
    Range(0, raster_size, Max(1, raster_size \div n_points)) \o <<raster_size>>

_get_row_col_vector(raster_size, n_points) ==
    LET step == Max(1, raster_size \div n_points)
    IN  Slice(Range(0, raster_size, step), n_points) \o <<raster_size>>

_compound_row_col_vectors(x_size, y_size, x_vec, y_vec) ==
    [col_vec |-> x_vec \o Repeat(x_size, Len(y_vec)) \o Reversed(x_vec)
                     \o Repeat(0, Len(y_vec)),
     row_vec |-> Repeat(0, Len(x_vec)) \o y_vec \o Repeat(y_size, Len(x_vec))
                     \o Reversed(y_vec)]

(***************************************************************************)
(* The state: the call being made and the position in it.                  *)
(***************************************************************************)
VARIABLES
    input,        \* the call, and how its extent string was written (ghost of ext)
    ext,          \* the extent string given to _create_extent_dict
    pc,           \* the position in the call, "done" at its end
    parsed,       \* the outcome of _create_extent_dict
    extent_dict,  \* the mapping given to _convert_extentDic / _get_geotransform
    width,        \* locals of _get_geotransform
    height,
    reads,        \* the keys of extent_dict _get_geotransform has looked up
    sizes,        \* what _transform_tr / _transform_ts returned
    result,       \* the outcome of _get_geotransform
    args,         \* Domain.__init__: which arguments are given
    lib,          \* whether gdal.AutoCreateWarpedVRT returns a dataset
    srs,          \* the projection the srs argument stands for
    self,         \* the attributes vrt and extent_dict of the Domain
    raised,       \* the exception Domain.__init__ raised itself, "" if none
    datasets,     \* the datasets constructed so far
    points,       \* the points given to TransformPoint, in call order
    again,        \* the mapping as given to a direct call, and the first of two calls
    kml,          \* write_kml: arguments, exception, files written
    border        \* get_border: sizes, nPoints and the vectors built

vars == <<input, ext, pc, parsed, extent_dict, width, height, reads, sizes, result,
          args, lib, srs, self, raised, datasets, points, again, kml, border>>

NoInput == [family |-> "dict", groups |-> <<>>, lead |-> <<>>, trail |-> <<>>]
CallOf(family) == [NoInput EXCEPT !.family = family]
NoParse == Raise("", NoMsg)
NoSelf == [vrt |-> "", geo_transform |-> <<>>, x_size |-> 0, y_size |-> 0,
           has_extent_dict |-> FALSE, extent_dict |-> EmptyDict]
NoAgain == [n |-> 0, dict |-> EmptyDict, result |-> NoResult]
NoKml == [xml |-> "None", kml |-> "None", domains |-> 0, domains_ok |-> TRUE,
          raised |-> "", written |-> {}]
NoBorder == [x_size |-> 0, y_size |-> 0, n_points |-> 0, x_vec |-> <<>>, y_vec |-> <<>>,
             col_vec |-> <<>>, row_vec |-> <<>>]

Init ==
    /\ parsed = NoParse
    /\ width = Zero
    /\ height = Zero
    /\ reads = {}
    /\ sizes = NoSizes
    /\ result = NoResult
    /\ self = NoSelf
    /\ raised = ""
    /\ datasets = 0
    /\ points = <<>>
    /\ \/ /\ input \in ValidInputs \cup MalformedInputs
          /\ ext = Render(input)
          /\ pc = "parse"
          /\ extent_dict = EmptyDict
          /\ args = NoArgs /\ lib = "ok" /\ srs = "geographic"
          /\ again = NoAgain /\ kml = NoKml /\ border = NoBorder
       \/ /\ input = NoInput
          /\ ext = <<>>
          /\ pc = "extent"
          /\ extent_dict \in DirectDicts
          /\ args = NoArgs /\ lib = "ok" /\ srs = "geographic"
          /\ again = [NoAgain EXCEPT !.dict = extent_dict]
          /\ kml = NoKml /\ border = NoBorder
       \/ /\ \E c \in InitCalls :
                /\ input = c.input
                /\ args = c.args /\ lib = c.lib /\ srs = c.srs
          /\ ext = Render(input)
          /\ pc = "init"
          /\ extent_dict = EmptyDict
          /\ again = NoAgain /\ kml = NoKml /\ border = NoBorder
       \/ /\ input = CallOf("convert")
          /\ ext = <<>>
          /\ pc = "convert"
          /\ extent_dict \in LleDicts
          /\ srs \in Transforms
          /\ args = NoArgs /\ lib = "ok"
          /\ again = [NoAgain EXCEPT !.dict = extent_dict]
          /\ kml = NoKml /\ border = NoBorder
       \/ /\ input = CallOf("write_kml")
          /\ ext = <<>>
          /\ pc = "write_kml"
          /\ extent_dict = EmptyDict
          /\ args = NoArgs /\ lib = "ok" /\ srs = "geographic"
          /\ again = NoAgain /\ border = NoBorder
          /\ kml \in {[NoKml EXCEPT !.xml = x, !.kml = k, !.domains = n, !.domains_ok = ok] :
                         x \in XmlArgs, k \in KmlArgs, n \in 0..MaxDomains, ok \in BOOLEAN}
       \/ /\ input = CallOf("get_border")
          /\ ext = <<>>
          /\ pc = "get_border"
          /\ extent_dict = EmptyDict
          /\ args = NoArgs /\ lib = "ok" /\ srs = "geographic"
          /\ again = NoAgain /\ kml = NoKml
          /\ border \in {[NoBorder EXCEPT !.x_size = x, !.y_size = y, !.n_points = n] :
                            x \in 1..MaxRaster, y \in 1..MaxRaster, n \in 1..MaxPoints}

InInit == input.family = "init"

\* Domain.__init__, lines 159-207 up to the calls of the srs and ext branch
DomainInit ==
    /\ pc = "init"
    /\ LET path == ConstructionPath(args)
       IN  CASE path \in {"ambiguous", "none"} ->
                   /\ raised' = "OptionError"
                   /\ pc' = "done"
                   /\ UNCHANGED <<self, datasets>>
             [] path = "ds" ->
                   /\ self' = [self EXCEPT !.vrt = "from_gdal_dataset"]
                   /\ datasets' = datasets + 1
                   /\ pc' = "done"
                   /\ UNCHANGED raised
             [] path = "ds_srs" ->
                   IF lib = "fails"
                   THEN /\ raised' = "ProjectionError"
                        /\ pc' = "done"
                        /\ UNCHANGED <<self, datasets>>
                   ELSE /\ self' = [self EXCEPT !.vrt = "from_gdal_dataset"]
                        /\ datasets' = datasets + 2
                        /\ pc' = "done"
                        /\ UNCHANGED raised
             [] path = "srs_ext" ->
                   /\ pc' = "parse"
                   /\ UNCHANGED <<self, raised, datasets>>
             [] path = "lonlat" ->
                   /\ self' = [self EXCEPT !.vrt = "from_lonlat"]
                   /\ datasets' = datasets + 1
                   /\ pc' = "done"
                   /\ UNCHANGED raised
    /\ UNCHANGED <<input, ext, parsed, extent_dict, width, height, reads, sizes, result,
                   args, lib, srs, points, again, kml, border>>

\* extent_dict = Domain._create_extent_dict(ext); lines 188-192 choose what follows
CreateExtentDict ==
    /\ pc = "parse"
    /\ parsed' = _create_extent_dict(ext)
    /\ extent_dict' = parsed'.dict
    /\ pc' = IF parsed'.kind # "ok" THEN "done"
             ELSE IF InInit /\ HasKey(parsed'.dict, lle) THEN "convert"
             ELSE "extent"
    /\ UNCHANGED <<input, ext, width, height, reads, sizes, result,
                   args, lib, srs, self, raised, datasets, points, again, kml, border>>

\* extent_dict = self._convert_extentDic(srs, extent_dict)
ConvertExtentDic ==
    /\ pc = "convert"
    /\ LET converted == _convert_extentDic(srs, extent_dict)
       IN  /\ points' = points \o converted.points
           /\ extent_dict' = converted.dict
    /\ pc' = IF InInit THEN "extent" ELSE "done"
    /\ UNCHANGED <<input, ext, parsed, width, height, reads, sizes, result,
                   args, lib, srs, self, raised, datasets, again, kml, border>>

\* _get_geotransform, lines 703-707: the extent and its check
GetGeotransformExtent ==
    /\ pc = "extent"
    /\ reads' = reads \cup {te}
    /\ IF ~HasKey(extent_dict, te)
       THEN /\ result' = RaiseResult("KeyError", [NoMsg EXCEPT !.opt = te])
            /\ pc' = "done"
            /\ UNCHANGED <<width, height>>
       ELSE /\ width' = RSub(extent_dict[te][3], extent_dict[te][1])
            /\ height' = RSub(extent_dict[te][4], extent_dict[te][2])
            /\ IF ExtentIllegal(width', height')
               THEN /\ result' = RaiseResult("OptionError",
                                     [NoMsg EXCEPT !.text = "The extent is illegal"])
                    /\ pc' = "done"
               ELSE /\ result' = result
                    /\ pc' = "size"
    /\ UNCHANGED <<input, ext, parsed, extent_dict, sizes,
                   args, lib, srs, self, raised, datasets, points, again, kml, border>>

\* _get_geotransform, lines 709-720: resolution, raster size and the transform
GetGeotransformSize ==
    /\ pc = "size"
    /\ IF HasKey(extent_dict, tr)
       THEN /\ reads' = reads \cup {tr}
            /\ sizes' = _transform_tr(width, height, extent_dict[tr])
            /\ extent_dict' = SetItem(extent_dict, tr,
                                      tr_arr_after_transform_tr(extent_dict[tr]))
       ELSE /\ reads' = reads \cup {tr, ts}
            /\ extent_dict' = extent_dict
            /\ sizes' = IF HasKey(extent_dict, ts)
                        THEN _transform_ts(width, height, extent_dict[ts])
                        ELSE [NoSizes EXCEPT !.kind = "KeyError",
                                             !.msg = [NoMsg EXCEPT !.opt = ts]]
    /\ result' = IF sizes'.kind = "ok"
                 THEN [kind |-> "ok", msg |-> NoMsg,
                       coordinates |-> Coordinates(extent_dict, sizes'),
                       raster_x_size |-> Trunc(sizes'.raster_x_size),
                       raster_y_size |-> Trunc(sizes'.raster_y_size)]
                 ELSE RaiseResult(sizes'.kind, sizes'.msg)
    /\ pc' = IF InInit /\ sizes'.kind = "ok" THEN "vrt" ELSE "done"
    /\ UNCHANGED <<input, ext, parsed, width, height,
                   args, lib, srs, self, raised, datasets, points, again, kml, border>>

\* Domain.__init__, lines 197-201: the VRT, then self.extent_dict
CreateVRT ==
    /\ pc = "vrt"
    /\ self' = [vrt |-> "from_dataset_params", geo_transform |-> result.coordinates,
                x_size |-> result.raster_x_size, y_size |-> result.raster_y_size,
                has_extent_dict |-> TRUE, extent_dict |-> extent_dict]
    /\ datasets' = datasets + 1
    /\ pc' = "done"
    /\ UNCHANGED <<input, ext, parsed, extent_dict, width, height, reads, sizes, result,
                   args, lib, srs, raised, points, again, kml, border>>

\* _get_geotransform called once more on the mapping of a finished call
GetGeotransformAgain ==
    /\ pc = "done"
    /\ input.family = "dict"
    /\ again.n = 0
    /\ again' = [again EXCEPT !.n = 1, !.result = result]
    /\ width' = Zero
    /\ height' = Zero
    /\ reads' = {}
    /\ sizes' = NoSizes
    /\ result' = NoResult
    /\ pc' = "extent"
    /\ UNCHANGED <<input, ext, parsed, extent_dict,
                   args, lib, srs, self, raised, datasets, points, kml, border>>

\* Domain.write_kml(xmlFileName, kmlFileName)
WriteKml ==
    /\ pc = "write_kml"
    /\ pc' = "done"
    /\ kml' =
         IF IsTrue(kml.xml) /\ ~IsTrue(kml.kml)
         THEN \* the domains of the XML file, then open(kml_filename, 'wt')
              IF kml.domains > 0 /\ ~kml.domains_ok
              THEN [kml EXCEPT !.raised = "OptionError"]
              ELSE [kml EXCEPT !.raised = IF kml.kml = "None" THEN "TypeError"
                                         ELSE "IOError"]
         ELSE IF ~IsTrue(kml.xml) /\ IsTrue(kml.kml)
         THEN [kml EXCEPT !.written = {[name |-> <<kml.kml>>, borders |-> 1]}]
         ELSE [kml EXCEPT !.raised = "OptionError"]
    /\ UNCHANGED <<input, ext, parsed, extent_dict, width, height, reads, sizes, result,
                   args, lib, srs, self, raised, datasets, points, again, border>>

\* Domain.get_border(nPoints), up to the call of transform_points
GetBorder ==
    /\ pc = "get_border"
    /\ pc' = "done"
    /\ LET x_rc_vec == _get_row_col_vector(border.x_size, border.n_points)
           y_rc_vec == _get_row_col_vector(border.y_size, border.n_points)
           both == _compound_row_col_vectors(border.x_size, border.y_size,
                                             x_rc_vec, y_rc_vec)
       IN  border' = [border EXCEPT !.x_vec = x_rc_vec, !.y_vec = y_rc_vec,
                                    !.col_vec = both.col_vec, !.row_vec = both.row_vec]
    /\ UNCHANGED <<input, ext, parsed, extent_dict, width, height, reads, sizes, result,
                   args, lib, srs, self, raised, datasets, points, again, kml>>

Next ==
    \/ DomainInit
    \/ CreateExtentDict
    \/ ConvertExtentDic
    \/ GetGeotransformExtent
    \/ GetGeotransformSize
    \/ CreateVRT
    \/ GetGeotransformAgain
    \/ WriteKml
    \/ GetBorder

Spec == Init /\ [][Next]_vars


(***************************************************************************)
(* What the claims speak of.                                               *)
(***************************************************************************)
FromString == input.family \in {"valid", "malformed"}
ParseDone == FromString /\ pc # "parse"
DeriveDone == pc = "done" /\ result.kind # ""

NumHyphens(s) == Cardinality({i \in 1..Len(s) : s[i] = "-"})
Floats(nums) == [i \in 1..Len(nums) |-> Float(nums[i])]
IsExtentGroup(g) == g.name \in {te, lle} /\ Len(g.nums) = 4
IsSizeGroup(g) == g.name \in {ts, tr} /\ Len(g.nums) = 2
NonNegative(g) == \A i \in 1..Len(g.nums) : g.nums[i] >= 0

\* the mapping {A: [v1, v2, v3, v4], B: [w1, w2]} of an extent and a size group
MappingOf(e, z) == DictOf(e.name, Floats(e.nums), z.name, Floats(z.nums))

\* k is q truncated toward zero, said without the model's Trunc
IsTruncOf(k, q) ==
    /\ Abs(k) * q.d <= Abs(q.n)
    /\ Abs(q.n) < (Abs(k) + 1) * q.d
    /\ (k > 0 => q.n > 0)
    /\ (k < 0 => q.n < 0)

TeOf(dict) == dict[te]

\* the tokens of a group as written, and the messages of the checks it fails
WrittenToks(g) == (IF g.name = <<>> THEN <<>> ELSE <<g.name>>) \o g.toks
FailedChecksOf(toks, allowed, size) ==
    (IF toks = <<>> \/ Head(toks) \notin allowed
     THEN {[NoMsg EXCEPT !.text = "expected parameter",
                         !.opt = IF toks = <<>> THEN <<>> ELSE Head(toks)]}
     ELSE {})
    \cup
    (IF toks # <<>> /\ Head(toks) \in allowed /\ Len(toks) - 1 # size
     THEN {[text |-> "requires exactly", opt |-> Head(toks), size |-> size,
            given |-> Len(toks) - 1]}
     ELSE {})
    \cup
    (IF toks # <<>> /\ FirstBad(Tail(toks)) # 0
     THEN {[NoMsg EXCEPT !.text = "must be int or float"]}
     ELSE {})
FailedChecks ==
    IF NumHyphens(ext) # 2
    THEN {[NoMsg EXCEPT !.text = "requires exactly 2 parameters",
                        !.given = NumHyphens(ext)]}
    ELSE FailedChecksOf(WrittenToks(input.groups[1]), {te, lle}, 4)
         \cup FailedChecksOf(WrittenToks(input.groups[2]), {ts, tr}, 2)

\* exactly two keys, one of te / lle and one of ts / tr
TwoKeys(dict) ==
    /\ Cardinality(DOMAIN dict) = 2
    /\ Cardinality(DOMAIN dict \cap {te, lle}) = 1
    /\ Cardinality(DOMAIN dict \cap {ts, tr}) = 1
\* dict is the mapping old with a te entry of four values added, nothing else
PlusTe(dict, old) ==
    /\ ~HasKey(old, te)
    /\ DOMAIN dict = DOMAIN old \cup {te}
    /\ \A k \in DOMAIN old : dict[k] = old[k]
    /\ Len(dict[te]) = 4
\* the mapping has been passed to _get_geotransform
PassedToDerive == input.family \in {"valid", "init"} /\ (pc \in {"extent", "size"} \/ te \in reads)

\* the mapping _convert_extentDic was given
ConvertInput == IF InInit THEN parsed.dict ELSE again.dict
Converted == input.family \in {"init", "convert"} /\ points # <<>>

\* Domain.__init__ has raised, itself or in a call it made
InitRaised ==
    \/ raised # ""
    \/ parsed.kind \notin {"", "ok"}
    \/ result.kind \notin {"", "ok"}

(***************************************************************************)
(* C1.  An extent string '-<A> v1 v2 v3 v4 -<B> w1 w2' with A in {te,lle}, *)
(* B in {ts,tr} and numeric values, with any leading or trailing           *)
(* whitespace, parses to the mapping {A: [v1..v4], B: [w1, w2]} of floats  *)
(* in input order, and the whitespace never changes the result.            *)
(* Violated: a value with a minus sign adds a hyphen group (see C11).      *)
(***************************************************************************)
C1_ParseReturnsMapping ==
    (/\ ParseDone
     /\ input.family = "valid"
     /\ IsExtentGroup(input.groups[1])
     /\ IsSizeGroup(input.groups[2]))
    => /\ parsed = Return(MappingOf(input.groups[1], input.groups[2]))
       /\ parsed = _create_extent_dict(RenderGroups(input.groups))

(***************************************************************************)
(* C2.  Parsing is independent of the order of the two groups: with the    *)
(* size group (ts/tr, 2 values) written first and the extent group (te/lle,*)
(* 4 values) second, parse succeeds and yields the same mapping as for the *)
(* extent group first.  Stated for values without a minus sign, so that    *)
(* only the order decides.  Violated: the groups are classified by         *)
(* position.                                                               *)
(***************************************************************************)
C2_OrderIndependent ==
    (/\ ParseDone
     /\ input.family = "valid"
     /\ IsSizeGroup(input.groups[1])
     /\ IsExtentGroup(input.groups[2])
     /\ NonNegative(input.groups[1])
     /\ NonNegative(input.groups[2]))
    => /\ parsed.kind = "ok"
       /\ parsed = _create_extent_dict(
                       Render([input EXCEPT !.groups = <<input.groups[2], input.groups[1]>>]))

(***************************************************************************)
(* C3.  Parse returns no mapping and raises OptionError, with a message    *)
(* that identifies a failed check, whenever (1) the number of hyphen groups*)
(* is not 2 (message: the count), (2) a group's option name is not in its  *)
(* allowed set (message: the name given), (3) a group has not exactly 4    *)
(* resp. 2 values (message: option, expected, given), (4) a value is not   *)
(* numeric (message: must be int or float).                                *)
(* Violated: a group with no token at all raises IndexError.               *)
(***************************************************************************)
C3_InvalidStringRaisesOptionError ==
    (ParseDone /\ FailedChecks # {})
    => /\ parsed.kind = "OptionError"
       /\ parsed.dict = EmptyDict
       /\ parsed.msg \in FailedChecks


C5_TrResult ==
    /\ (DeriveDone /\ result.kind = "ok" /\ HasKey(extent_dict, tr))
       => LET t == TeOf(extent_dict)
              r == extent_dict[tr]
          IN  /\ result.coordinates = <<t[1], r[1], Zero, t[4], Zero, RNeg(r[2])>>
              /\ IsTruncOf(result.raster_x_size, RDiv(RSub(t[3], t[1]), r[1]))
              /\ IsTruncOf(result.raster_y_size,
                           RAbs(RDiv(RSub(t[4], t[2]), RNeg(r[2]))))
    /\ (pc = "done" /\ extent_dict = DictOf(te, <<Float(0), Float(0), Float(100), Float(50)>>,
                                            tr, <<Float(10), Float(10)>>))
       => result = [kind |-> "ok", msg |-> NoMsg,
                    coordinates |-> <<Float(0), Float(10), Zero, Float(50), Zero, Float(-10)>>,
                    raster_x_size |-> 10, raster_y_size |-> 5]

\* a tr result whose width quotient is not whole, so that truncation shows
C5_Witness ==
    /\ DeriveDone /\ result.kind = "ok" /\ HasKey(extent_dict, tr)
    /\ sizes.raster_x_size.d # 1
    /\ sizes.raster_x_size.n > sizes.raster_x_size.d
    /\ result.raster_x_size >= 1

(***************************************************************************)
(* C6.  For every mapping with te = [xmin, ymin, xmax, ymax] and           *)
(* ts = [w, h] (no tr key) on which _get_geotransform succeeds, the result *)
(* is the transform (xmin, (xmax - xmin) / w, 0, ymax, 0,                  *)
(* -abs((ymax - ymin) / h)) with raster size (trunc(w), trunc(h));         *)
(* te=[0,0,100,100], ts=[100,100] gives (0,1,0,100,0,-1) and (100, 100).   *)
(***************************************************************************)
C6_TsResult ==
    /\ (DeriveDone /\ result.kind = "ok" /\ HasKey(extent_dict, ts)
            /\ ~HasKey(extent_dict, tr))
       => LET t == TeOf(extent_dict)
              z == extent_dict[ts]
          IN  /\ result.coordinates =
                     <<t[1], RDiv(RSub(t[3], t[1]), z[1]), Zero,
                       t[4], Zero, RNeg(RAbs(RDiv(RSub(t[4], t[2]), z[2])))>>
              /\ IsTruncOf(result.raster_x_size, z[1])
              /\ IsTruncOf(result.raster_y_size, z[2])
    /\ (pc = "done" /\ extent_dict = DictOf(te, <<Float(0), Float(0), Float(100), Float(100)>>,
                                            ts, <<Float(100), Float(100)>>))
       => result = [kind |-> "ok", msg |-> NoMsg,
                    coordinates |-> <<Float(0), Float(1), Zero, Float(100), Zero, Float(-1)>>,
                    raster_x_size |-> 100, raster_y_size |-> 100]

\* a ts result with a fractional width and a negative height in ts
C6_Witness ==
    /\ DeriveDone /\ result.kind = "ok" /\ HasKey(extent_dict, ts)
    /\ extent_dict[ts][1].d # 1
    /\ extent_dict[ts][2].n < 0
    /\ result.coordinates[6].n < 0

(***************************************************************************)
(* C7.  On every mapping (te with tr, or te with ts, any numeric values)   *)
(* on which _get_geotransform returns a result, both raster dimensions are *)
(* integers >= 1.                                                          *)
(* Violated: te=[0,0,1,1], tr=[1,2] returns raster height 0.               *)
(***************************************************************************)
C7_RasterSizePositive ==
    (DeriveDone /\ result.kind = "ok")
    => result.raster_x_size >= 1 /\ result.raster_y_size >= 1

(***************************************************************************)
(* C8.  On every mapping on which _get_geotransform returns a result, with *)
(* tr or with ts and for every sign of their values, the sixth coefficient *)
(* of the transform is <= 0.                                               *)
(* Violated: a negative tr[1] is negated into a positive coefficient.      *)
(***************************************************************************)
C8_PixelHeightNonPositive ==
    (DeriveDone /\ result.kind = "ok") => result.coordinates[6].n <= 0

(***************************************************************************)
(* C9.  For every input string, parse followed by derive on its result    *)
(* ends either with a (transform, width, height) triple or with            *)
(* OptionError; no other kind of error escapes, also for zero -ts or -tr   *)
(* values and for a parsed mapping that holds lle instead of te.           *)
(* Violated: ZeroDivisionError, KeyError and IndexError escape.            *)
(***************************************************************************)
C9_SingleErrorKind ==
    (FromString /\ pc = "done")
    => \/ parsed.kind = "OptionError" /\ result.kind = ""
       \/ parsed.kind = "ok" /\ result.kind \in {"ok", "OptionError"}

(***************************************************************************)
(* C10.  _transform_tr raises OptionError whenever the resolution is       *)
(* larger than the extent in either direction: for width > 0, height > 0   *)
(* and tr = [rx, ry] it fails if rx > width or if ry > height.             *)
(* Violated: ry > height is never detected, height is compared with -ry.   *)
(***************************************************************************)
C10_TrLargerThanExtentRaises ==
    (/\ pc = "done"
     /\ tr \in reads
     /\ HasKey(extent_dict, tr)
     /\ \/ RLt(width, extent_dict[tr][1])
        \/ RLt(height, extent_dict[tr][2]))
    => sizes.kind = "OptionError" /\ result.kind = "OptionError"

(***************************************************************************)
(* C11.  Extent strings with negative values are accepted: for the         *)
(* documented example '-lle -10 30 55 60 -ts 1000 1000', and for every     *)
(* valid extent string in which a value carries a minus sign, parse        *)
(* returns the mapping of the values with their signs.                     *)
(* Violated: the string is split on every hyphen, the sign included.       *)
(***************************************************************************)
C11_NegativeValuesAccepted ==
    (/\ ParseDone
     /\ input.family = "valid"
     /\ IsExtentGroup(input.groups[1])
     /\ IsSizeGroup(input.groups[2])
     /\ ~(NonNegative(input.groups[1]) /\ NonNegative(input.groups[2])))
    => /\ parsed.kind = "ok"
       /\ parsed.dict = MappingOf(input.groups[1], input.groups[2])

(***************************************************************************)
(* C12.  The documented example '-te 100 2000 300 10000 -tr 300 200'       *)
(* passes through the whole pipeline: parse returns                        *)
(* {te: [100, 2000, 300, 10000], tr: [300, 200]}, and derive on that       *)
(* mapping returns affine parameters and a raster size; no error is raised *)
(* at either step.                                                         *)
(* Violated: the extent is 200 wide and the resolution 300, so derive      *)
(* raises OptionError.                                                     *)
(***************************************************************************)
C12_DocumentedExamplePasses ==
    (/\ input.family \in {"valid", "init"}
     /\ input.groups = <<Group(te, <<100, 2000, 300, 10000>>), Group(tr, <<300, 200>>)>>
     /\ pc \notin {"init", "parse"})
    => /\ parsed = Return(DictOf(te, Floats(<<100, 2000, 300, 10000>>),
                                 tr, Floats(<<300, 200>>)))
       /\ result.kind \in {"", "ok"}
       /\ (pc \in {"vrt", "done"} => result.kind = "ok")

(***************************************************************************)
(* C13.  As stated: the mapping returned by parse, the mapping passed to   *)
(* derive and the mapping a Domain retains as extent_dict after            *)
(* construction from srs + ext each have exactly two keys, one of te / lle *)
(* and one of ts / tr, also for an -lle string, and the mapping is not     *)
(* modified after parse constructed it.                                    *)
(* Violated for -lle: _convert_extentDic adds a te entry to the mapping.   *)
(***************************************************************************)
C13_ExtentSpecInvariant ==
    /\ (parsed.kind = "ok" => TwoKeys(parsed.dict))
    /\ (PassedToDerive => TwoKeys(extent_dict) /\ extent_dict = parsed.dict)
    /\ (self.has_extent_dict
            => TwoKeys(self.extent_dict) /\ self.extent_dict = parsed.dict)

(***************************************************************************)
(* C13, amended.  The mapping returned by parse has exactly two keys, one  *)
(* of te / lle and one of ts / tr.  For a -te string the mapping passed to *)
(* derive and the one the Domain retains is that mapping, unmodified.  For *)
(* an -lle string Domain.__init__ passes and retains the parsed mapping    *)
(* with a te entry of four values added (three keys); the lle and ts / tr  *)
(* entries are never changed or removed.                                   *)
(***************************************************************************)
C13_ExtentSpecLifecycle ==
    /\ (parsed.kind = "ok" => TwoKeys(parsed.dict))
    /\ (PassedToDerive
            => IF InInit /\ HasKey(parsed.dict, lle)
               THEN PlusTe(extent_dict, parsed.dict)
               ELSE extent_dict = parsed.dict)
    /\ (self.has_extent_dict
            => IF HasKey(parsed.dict, lle)
               THEN PlusTe(self.extent_dict, parsed.dict)
               ELSE self.extent_dict = parsed.dict /\ TwoKeys(self.extent_dict))

\* a Domain built from an -lle string retains a mapping of three keys
C13_Witness ==
    /\ InInit
    /\ pc = "done"
    /\ self.has_extent_dict
    /\ HasKey(parsed.dict, lle)
    /\ DOMAIN self.extent_dict = {lle, te} \cup (DOMAIN parsed.dict \cap {ts, tr})
    /\ Cardinality(DOMAIN self.extent_dict) = 3

(***************************************************************************)
(* C15.  For lle = [lonmin, latmin, lonmax, latmax], _convert_extentDic    *)
(* transforms exactly the four corners (lonmin, latmax), (lonmax, latmax), *)
(* (lonmax, latmin), (lonmin, latmin), each with one call of the           *)
(* coordinate transformation, and sets te = [min X, min Y, max X, max Y]   *)
(* of the four transformed corners: the te box contains all four           *)
(* transformed corners, each bound is attained by a corner,                *)
(* xmin <= xmax and ymin <= ymax, and the returned mapping is the input    *)
(* mapping plus the te key.                                                *)
(***************************************************************************)
C15_LleToTe ==
    Converted =>
        LET l == ConvertInput[lle]
            t == extent_dict[te]
            xy == [i \in 1..Len(points) |->
                      TransformPoint(srs, points[i][1], points[i][2])]
        IN  /\ points = <<<<l[1], l[4]>>, <<l[3], l[4]>>, <<l[3], l[2]>>, <<l[1], l[2]>>>>
            /\ \A i \in 1..4 :
                  /\ RLe(t[1], xy[i][1]) /\ RLe(xy[i][1], t[3])
                  /\ RLe(t[2], xy[i][2]) /\ RLe(xy[i][2], t[4])
            /\ \E i \in 1..4 : xy[i][1] = t[1]
            /\ \E i \in 1..4 : xy[i][2] = t[2]
            /\ \E i \in 1..4 : xy[i][1] = t[3]
            /\ \E i \in 1..4 : xy[i][2] = t[4]
            /\ RLe(t[1], t[3])
            /\ RLe(t[2], t[4])
            /\ PlusTe(extent_dict, ConvertInput)

\* a box turned by the projection: the corners (-1,1), (1,1), (1,0), (-1,0)
\* go to (-1,-1), (-1,1), (0,1), (0,-1)
C15_Witness ==
    /\ input.family = "convert"
    /\ pc = "done"
    /\ srs = "rotated"
    /\ Len(points) = 4
    /\ extent_dict[lle] = Floats(<<-1, 0, 1, 1>>)
    /\ extent_dict[te] = Floats(<<-1, -1, 0, 1>>)

C18_ConstructionAllOrNothing ==
    InInit =>
        /\ (InitRaised => self = NoSelf /\ datasets = 0)
        /\ (parsed # NoParse => ~args.ds /\ args.srs /\ args.ext)
        /\ pc = "done" =>
              /\ (args.ds /\ args.srs /\ args.ext => raised = "OptionError")
              /\ (~args.ds /\ ~(args.srs /\ args.ext) /\ ~(args.lon /\ args.lat)
                     => raised = "OptionError")
              /\ ~InitRaised =>
                    /\ self.vrt =
                          IF args.ds THEN "from_gdal_dataset"
                          ELSE IF args.srs /\ args.ext THEN "from_dataset_params"
                          ELSE "from_lonlat"
                    /\ datasets = IF args.ds /\ args.srs THEN 2 ELSE 1
                    /\ self.has_extent_dict <=> (~args.ds /\ args.srs /\ args.ext)

\* srs, ext, lon and lat all given: the srs and ext path ran, not the lon / lat one
C18_Witness ==
    /\ InInit
    /\ pc = "done"
    /\ ~args.ds /\ args.srs /\ args.ext /\ args.lon /\ args.lat
    /\ ~InitRaised
    /\ self.vrt = "from_dataset_params"
    /\ self.has_extent_dict
    /\ datasets = 1

(***************************************************************************)
(* C16.  write_kml chooses its output by which file names are given: with  *)
(* only xmlFileName given, the KML is written to the file named            *)
(* xmlFileName + '.kml' and holds the borders of every domain listed in    *)
(* the XML; with only kmlFileName given, the KML is written to kmlFileName *)
(* and holds the border of the current Domain; with both given or neither  *)
(* given it raises OptionError and writes no file.  A name counts as given *)
(* as the code counts it: neither None nor empty.                          *)
(* Violated: with only xmlFileName given the name of the KML file stays    *)
(* None and no file is written.                                            *)
(***************************************************************************)
C16_WriteKmlOutput ==
    (input.family = "write_kml" /\ pc = "done") =>
        /\ (IsTrue(kml.xml) /\ ~IsTrue(kml.kml))
              => /\ kml.raised = ""
                 /\ kml.written = {[name |-> <<kml.xml, ".kml">>, borders |-> kml.domains]}
        /\ (~IsTrue(kml.xml) /\ IsTrue(kml.kml))
              => /\ kml.raised = ""
                 /\ kml.written = {[name |-> <<kml.kml>>, borders |-> 1]}
        /\ (IsTrue(kml.xml) <=> IsTrue(kml.kml))
              => /\ kml.raised = "OptionError"
                 /\ kml.written = {}

(***************************************************************************)
(* C19.  The border built by get_border is a closed ring inside the        *)
(* raster: for every x_size >= 1, y_size >= 1 and n_points >= 1 (integer   *)
(* division for the step), each vector from _get_row_col_vector starts at  *)
(* 0, ends at the raster size, is strictly increasing and has at most      *)
(* n_points + 1 entries; the column and row vectors from                   *)
(* _compound_row_col_vectors have the same length                          *)
(* 2 * (len(x_vec) + len(y_vec)), every column is in [0, x_size], every    *)
(* row in [0, y_size], and the first and the last point are both (0, 0).   *)
(***************************************************************************)
C19_BorderIsClosedRing ==
    (input.family = "get_border" /\ pc = "done") =>
        LET n == 2 * (Len(border.x_vec) + Len(border.y_vec))
        IN  /\ border.x_size >= 1 /\ border.y_size >= 1 /\ border.n_points >= 1
            /\ \A v \in {<<border.x_vec, border.x_size>>, <<border.y_vec, border.y_size>>} :
                  /\ Len(v[1]) >= 2
                  /\ Len(v[1]) <= border.n_points + 1
                  /\ v[1][1] = 0
                  /\ v[1][Len(v[1])] = v[2]
                  /\ \A i \in 1..(Len(v[1]) - 1) : v[1][i] < v[1][i + 1]
            /\ Len(border.col_vec) = n
            /\ Len(border.row_vec) = n
            /\ \A i \in 1..n :
                  /\ border.col_vec[i] \in 0..border.x_size
                  /\ border.row_vec[i] \in 0..border.y_size
            /\ <<border.col_vec[1], border.row_vec[1]>> = <<0, 0>>
            /\ <<border.col_vec[n], border.row_vec[n]>> = <<0, 0>>

\* 5 columns, 1 row, 2 points: the step is 2 and the slice drops the column 4
C19_Witness ==
    /\ input.family = "get_border"
    /\ pc = "done"
    /\ border.x_size = 5 /\ border.y_size = 1 /\ border.n_points = 2
    /\ border.x_vec = <<0, 2, 5>>
    /\ border.y_vec = <<0, 1>>
    /\ border.col_vec = <<0, 2, 5, 5, 5, 5, 2, 0, 0, 0>>
    /\ border.row_vec = <<0, 0, 0, 0, 1, 1, 1, 1, 1, 0>>

=============================================================================
